---- MODULE Spec2Model ----
(***************************************************************************)
(* A model of gore's read-eval-print loop: the continuation line editor    *)
(* (ContLiner), the main loop of main.go and Session.Eval with its         *)
(* checkpoint (storeMainBody / restoreMainBody).                           *)
(*                                                                         *)
(* Text is a sequence of lexemes.  Go code is written with one lexeme per  *)
(* token group ("x:=1", "{", ";"), a directive is spelled character by     *)
(* character (":", "q", "u", "i", "t") so that the prefix test of Eval is  *)
(* computed on it, and "\n" is the line break ContLiner.Prompt inserts.    *)
(***************************************************************************)
EXTENDS Integers, Sequences, FiniteSets, TLC

VARIABLES
    pc,                \* position of main: "prompt", "eval", "done", "exit"
    in,                \* the string rl.Prompt returned to main
    buffer,            \* ContLiner.buffer
    depth,             \* ContLiner.depth
    history,           \* liner history (AppendHistory)
    mainBody,          \* session.mainBody.List
    storedBodyLength,  \* session.storedBodyLength
    imports,           \* import paths of session.file
    AutoImports,       \* Session.AutoImports
    cycle,             \* record of what the last call of Eval did (observation)
    pending,           \* lines read since the buffer was last empty (observation)
    prompts,           \* number of calls of rl.Prompt so far
    extraFiles,        \* session.extraFiles: the declarations of each unit
    ExtFiles,          \* Session.ExtFiles: the files named by -context
    DotPkg,            \* Session.DotPkg: the package named by -pkg
    fs,                \* the files ":read" finds, by path
    event,             \* what rl.Prompt got last and what was printed (observation)
    listening,         \* number of channels signal.Notify has registered
    chanSig,           \* number of signals in the channel c
    waiting,           \* relay goroutines blocked on a channel that is open
    closing            \* relay goroutines whose channel is closed

session == <<mainBody, storedBodyLength, imports, extraFiles>>

config == <<AutoImports, ExtFiles, DotPkg, fs>>

relay == <<listening, chanSig, waiting, closing>>

vars == <<pc, in, buffer, depth, history, cycle, pending, prompts, event,
          session, config, relay>>

\* ---------------------------------------------------------------- bounds

MaxPrompts == 2

MaxBraces == 4

MaxDecls == 3

MaxFiles == 2

\* ------------------------------------------------------------- constants

printerName == "__gore_p"

NL == "\n"

ErrContinue == "<continue input>"

ErrQuit == "<quit session>"

\* names of the directives, in the order of the usage text
commands ==
    << <<"i","m","p","o","r","t">>, <<"p","r","i","n","t">>,
       <<"w","r","i","t","e">>, <<"r","e","a","d">>, <<"r","e","s","e","t">>,
       <<"r","u","n">>, <<"d","o","c">>, <<"h","e","l","p">>,
       <<"q","u","i","t">> >>

\* ------------------------------------------------------- string helpers

\* strings.HasPrefix
HasPrefix(s, p) ==
    /\ Len(p) <= Len(s)
    /\ SubSeq(s, 1, Len(p)) = p

\* strings.TrimPrefix
TrimPrefix(s, p) ==
    IF HasPrefix(s, p) THEN SubSeq(s, Len(p) + 1, Len(s)) ELSE s

RECURSIVE TrimLeft(_)
TrimLeft(s) ==
    IF s # <<>> /\ Head(s) = " " THEN TrimLeft(Tail(s)) ELSE s

RECURSIVE TrimRight(_)
TrimRight(s) ==
    IF s # <<>> /\ s[Len(s)] = " " THEN TrimRight(SubSeq(s, 1, Len(s) - 1)) ELSE s

\* strings.TrimSpace
TrimSpace(s) == TrimRight(TrimLeft(s))

\* ------------------------------------------------------------ Front-End
\* go/parser and go/scanner on the lexemes of this model.

ExprAtoms == {"1+1"}

AssignAtoms == {"x:=1", "x,_:=f()", "_=f()"}

DeclAtoms == {"var y"}

IfHeader == "if true"

\* the targets (assign.Lhs) of an assignment lexeme
LhsOf(tok) ==
    CASE tok = "x:=1"     -> << <<"x">> >>
      [] tok = "x,_:=f()" -> << <<"x">>, <<"_">> >>
      [] tok = "_=f()"    -> << <<"_">> >>
      [] OTHER            -> <<>>

\* go/scanner: a line break becomes ";" after an operand, ")" or "}",
\* and is white space anywhere else
EndsStatement(tok) ==
    tok \in ExprAtoms \cup AssignAtoms \cup DeclAtoms \cup {IfHeader, ")", "}"}

RECURSIVE Semis(_, _)
Semis(text, prev) ==
    IF text = <<>> THEN <<>>
    ELSE IF Head(text) = NL
         THEN IF EndsStatement(prev)
              THEN <<";">> \o Semis(Tail(text), ";")
              ELSE Semis(Tail(text), prev)
         ELSE <<Head(text)>> \o Semis(Tail(text), Head(text))

\* ast nodes
Stmt(kind, tok, lhs, list) ==
    [kind |-> kind, Fun |-> "", Args |-> <<>>, Lhs |-> lhs, tok |-> tok, List |-> list]

\* &ast.ExprStmt{X: &ast.CallExpr{Fun: ast.NewIdent(name), Args: args}}
CallStmt(name, args) ==
    [kind |-> "ExprStmt", Fun |-> name, Args |-> args, Lhs |-> <<>>, tok |-> <<>>, List |-> <<>>]

ParseOk(val, next) == [err |-> "none", val |-> val, next |-> next]

ParseErr(class) == [err |-> class, val |-> <<>>, next |-> 0]

\* an operand or a parenthesised expression starting at toks[i]
RECURSIVE parseOperand(_, _)
parseOperand(toks, i) ==
    IF i > Len(toks) THEN ParseErr("incomplete")
    ELSE IF toks[i] \in ExprAtoms THEN ParseOk(<<toks[i]>>, i + 1)
    ELSE IF toks[i] = "("
         THEN LET r == parseOperand(toks, i + 1) IN
              IF r.err # "none" THEN r
              ELSE IF r.next > Len(toks) THEN ParseErr("incomplete")
              ELSE IF toks[r.next] = ")"
                   THEN ParseOk(<<"(">> \o r.val \o <<")">>, r.next + 1)
                   ELSE ParseErr("malformed")
    ELSE ParseErr("malformed")

\* parser.ParseExpr(in)
ParseExpr(text) ==
    LET toks == Semis(text, "")
        r    == parseOperand(toks, 1)
    IN  IF r.err # "none" THEN r
        ELSE IF r.next > Len(toks) \/ (r.next = Len(toks) /\ toks[r.next] = ";")
             THEN r
             ELSE ParseErr("malformed")

\* a statement is followed by ";", by the closing brace or by the end
Terminated(toks, i) == i > Len(toks) \/ toks[i] \in {";", "}"}

AfterStmt(toks, i) == IF i <= Len(toks) /\ toks[i] = ";" THEN i + 1 ELSE i

\* the statement list starting at toks[i], up to the closing brace of the
\* enclosing block (inBlock) or of the enclosing function F
RECURSIVE parseStmtList(_, _, _)
parseStmtList(toks, i, inBlock) ==
    IF i > Len(toks)
    THEN IF inBlock THEN ParseErr("incomplete") ELSE ParseOk(<<>>, i)
    ELSE LET t == toks[i]
             isIf == t = IfHeader /\ i < Len(toks) /\ toks[i + 1] = "{"
             one ==
               CASE t = ";" -> ParseOk(Stmt("EmptyStmt", <<>>, <<>>, <<>>), i + 1)
                 [] t \in AssignAtoms ->
                      ParseOk(Stmt("AssignStmt", <<t>>, LhsOf(t), <<>>), i + 1)
                 [] t \in DeclAtoms ->
                      ParseOk(Stmt("DeclStmt", <<t>>, <<>>, <<>>), i + 1)
                 [] t \in ExprAtoms \cup {"("} ->
                      LET e == parseOperand(toks, i) IN
                      IF e.err # "none" THEN e
                      ELSE ParseOk(Stmt("ExprStmt", e.val, <<>>, <<>>), e.next)
                 [] t = "{" \/ isIf ->
                      LET open == IF isIf THEN i + 1 ELSE i
                          b == parseStmtList(toks, open + 1, TRUE)
                      IN  IF b.err # "none" THEN b
                          ELSE ParseOk(Stmt(IF isIf THEN "IfStmt" ELSE "BlockStmt",
                                            <<>>, <<>>, b.val), b.next + 1)
                 [] OTHER -> ParseErr("malformed")
         IN  IF t = "}"
             THEN IF inBlock THEN ParseOk(<<>>, i) ELSE ParseErr("malformed")
             ELSE IF one.err # "none" THEN one
             ELSE IF t # ";" /\ ~Terminated(toks, one.next) THEN ParseErr("malformed")
             ELSE LET rest == parseStmtList(toks,
                                 IF t = ";" THEN one.next ELSE AfterStmt(toks, one.next),
                                 inBlock)
                  IN  IF rest.err # "none" THEN rest
                      ELSE ParseOk(<<one.val>> \o rest.val, rest.next)

\* parser.ParseFile of "package P; func F() { <in> }": the statements of F
ParseStmts(text) == parseStmtList(Semis(text, ""), 1, FALSE)

\* go/printer followed by go/parser (fixImports): the printer writes no
\* empty statement, so the statement list read back holds none
RECURSIVE Reparse(_)
Reparse(list) ==
    IF list = <<>> THEN <<>>
    ELSE LET s == Head(list) IN
         IF s.kind = "EmptyStmt" THEN Reparse(Tail(list))
         ELSE <<[s EXCEPT !.List = Reparse(s.List)]>> \o Reparse(Tail(list))

\* ------------------------------------------------------------- ContLiner

\* (mutant) the depth never falls below zero
RECURSIVE countDepth_Clamped(_)
countDepth_Clamped(text) ==
    IF text = <<>> THEN 0
    ELSE LET d == countDepth_Clamped(SubSeq(text, 1, Len(text) - 1))
             t == text[Len(text)]
         IN  CASE t = "{" -> d + 1
               [] t = "}" -> IF d > 0 THEN d - 1 ELSE 0
               [] OTHER -> d

\* ContLiner.countDepth: text/scanner tokens, "{" counts up and "}" down
RECURSIVE countDepth(_)
countDepth(text) ==
    IF text = <<>> THEN 0
    ELSE (CASE Head(text) = "{" -> 1
            [] Head(text) = "}" -> -1
            [] OTHER -> 0) + countDepth(Tail(text))

\* (mutant) the line is appended without the line break
PromptBuffer_NoBreak(buf, line) == buf \o line

\* ContLiner.Prompt, a line was read: the buffer it leaves
PromptBuffer(buf, line) ==
    IF buf # <<>> THEN buf \o <<NL>> \o line ELSE line

\* (mutant) Reindent returns no error
errUnmatchedBraces_Never(d) == FALSE

\* ContLiner.Reindent: the error it returns for the depth it computed
errUnmatchedBraces(d) == d < 0

\* the editor: ContLiner.buffer and ContLiner.depth
Liner(buf, d) == [buffer |-> buf, depth |-> d]

\* (mutant) the depth is left as computed
Clear_KeepDepth(cl) == [cl EXCEPT !.buffer = <<>>]

\* ContLiner.Clear
Clear(cl) == Liner(<<>>, 0)

\* ContLiner.Accepted: the buffer is emptied (after AppendHistory)
Accepted(cl) == [cl EXCEPT !.buffer = <<>>]

\* (mutant) nothing is appended
AppendHistory_Drop(hist, item) == hist

\* (mutant) the item is appended twice
AppendHistory_Twice(hist, item) == Append(Append(hist, item), item)

\* liner.State.AppendHistory
AppendHistory(hist, item) == Append(hist, item)

\* ---------------------------------------------------------------- Session

printerPkg == <<"f", "m", "t">>

\* the packages the importer resolves
KnownPkgs == {printerPkg, <<"o", "s">>}

\* (mutant) no target is taken for the named identifier
isNamedIdent_Never(expr, name) == FALSE

isNamedIdent(expr, name) == expr = <<name>>

\* Session.appendStatements
appendStatements(body, stmts) == body \o stmts

\* Session.evalExpr: the error of the parse and the body it leaves
evalExpr(body, text) ==
    LET r == ParseExpr(text) IN
    IF r.err # "none" THEN [err |-> r.err, body |-> body]
    ELSE [err |-> "none",
          body |-> appendStatements(body, <<CallStmt(printerName, <<r.val>>)>>)]

\* Session.evalStmt, "print last assigned/defined values"
printLastValues(stmts) ==
    IF Len(stmts) > 0 /\ stmts[Len(stmts)].kind = "AssignStmt"
    THEN LET vs == SelectSeq(stmts[Len(stmts)].Lhs, LAMBDA v : ~isNamedIdent(v, "_"))
         IN  IF Len(vs) > 0 THEN stmts \o <<CallStmt(printerName, vs)>> ELSE stmts
    ELSE stmts

\* Session.evalStmt
evalStmt(body, text) ==
    LET r == ParseStmts(text) IN
    IF r.err # "none" THEN [err |-> r.err, body |-> body]
    ELSE [err |-> "none", body |-> appendStatements(body, printLastValues(r.val))]

\* (mutant) the type assertion fails
IsErrorList_Never(err) == FALSE

\* err.(scanner.ErrorList) in Eval: every error go/parser returns for a
\* source given as a string is a scanner.ErrorList
IsErrorList(err) == err \in {"incomplete", "malformed"}

\* Session.storeMainBody
storeMainBody(body) == Len(body)

\* (mutant) the body is not truncated
restoreMainBody_Keep(body, stored) == body

\* (mutant) only the last statement is removed
restoreMainBody_PopLast(body, stored) ==
    IF body = <<>> THEN body ELSE SubSeq(body, 1, Len(body) - 1)

\* the capacity of a statement list of n elements that go/parser or
\* appendStatements built by append from the empty list
RECURSIVE Cap(_)
Cap(n) == IF n <= 1 THEN n ELSE 2 * Cap((n + 1) \div 2)

\* the zero value of ast.Stmt that the places of a list past its length hold
NilStmt == Stmt("nil", <<>>, <<>>, <<>>)

\* Session.restoreMainBody, s.mainBody.List[0:s.storedBodyLength]: the first
\* stored places of the list, also those past its length
restoreMainBody(body, stored) ==
    [k \in 1..stored |-> IF k <= Len(body) THEN body[k] ELSE NilStmt]

\* the slice expression of restoreMainBody is out of range past the capacity
restorePanics(body, stored) == stored > Cap(Len(body))

\* Session.fixImports: the file is printed, its imports are adjusted and it
\* is parsed again; mainBody is the body of the new file
fixImportsBody(body) == Reparse(body)

\* imports.Process drops the imports the file does not use: the statements
\* of this model use no package, the helper uses the printer package
fixImportsImports(imps) == {p \in imps : p = printerPkg}

\* clearQuickFix and doQuickFix of Eval: the body they leave
clearQuickFix(body) == body

doQuickFix(body) == body

\* ------------------------------------------------------- included files

\* a top-level declaration of a file: an *ast.FuncDecl with its name and
\* body, or the import declaration (an *ast.GenDecl)
FuncDecl(name, body) == [kind |-> "FuncDecl", Name |-> <<name>>, Body |-> body]

ImportDecl == [kind |-> "GenDecl", Name |-> <<"import">>, Body |-> <<>>]

\* what ioutil.ReadFile and parser.ParseFile give for a file: ok is "ok",
\* "noent" (the file cannot be read) or "syntax" (it does not parse)
SourceFile(ok, imps, decls) == [ok |-> ok, Imports |-> imps, Decls |-> decls]

\* the element of a set of one element
Only(S) == CHOOSE x \in S : TRUE

\* append(f.Decls[0:i], f.Decls[i+1:]...) on the backing array arr of a
\* slice of length len, i the 0-based index of position j: the elements
\* after j move down one place, the last place keeps its old element
deleteDecl(arr, len, j) ==
    [k \in 1..Len(arr) |-> IF k >= j /\ k < len THEN arr[k + 1] ELSE arr[k]]

\* the loop of importFile before its first step: the array of f.Decls, the
\* length of f.Decls, the body of the session
Stripping(decls, body) ==
    [arr |-> decls, len |-> Len(decls), body |-> body, panic |-> FALSE]

\* one step of the loop of importFile, "for i, decl := range f.Decls", at
\* position j: decl is read out of the array the deletions write into; a
\* function named main or __gore_p is deleted from f.Decls, main gives its
\* body when includingMain; f.Decls[i+1:] is out of range when the position
\* is past the current length
stripDecl(st, j, includingMain) ==
    IF ~(st.arr[j].kind = "FuncDecl" /\
         (isNamedIdent(st.arr[j].Name, "main") \/
          isNamedIdent(st.arr[j].Name, printerName)))
    THEN st
    ELSE [arr   |-> IF j > st.len THEN st.arr ELSE deleteDecl(st.arr, st.len, j),
          len   |-> IF j > st.len THEN st.len ELSE st.len - 1,
          body  |-> IF includingMain /\ isNamedIdent(st.arr[j].Name, "main")
                    THEN st.arr[j].Body ELSE st.body,
          panic |-> j > st.len]

\* the loop of importFile from position j on: range runs over the length
\* the slice had before the loop
RECURSIVE stripDecls(_, _, _)
stripDecls(st, j, includingMain) ==
    IF j > Len(st.arr) \/ st.panic THEN st
    ELSE Only({stripDecls(next, j + 1, includingMain) :
                 next \in {stripDecl(st, j, includingMain)}})

\* f.Decls after the loop
DeclsOf(st) == SubSeq(st.arr, 1, st.len)

\* what the file system does to importFile: nothing, ioutil.TempFile fails,
\* or os.Create of the unit fails
IOResults == {"ok", "tempfile", "create"}

\* the session as includeFile sees it
Sess(body, imps, units) == [body |-> body, imports |-> imps, units |-> units]

IncludeResult(err, s) == [err |-> err, s |-> s]

\* Session.importFile: the temporary file, the parse, the loop, the unit is
\* written and appended to extraFiles
importFile(src, includingMain, s, io) ==
    IF io = "tempfile" \/ src.ok # "ok" THEN IncludeResult("error", s)
    ELSE Only({IF r.panic THEN IncludeResult("panic", Sess(r.body, s.imports, s.units))
               ELSE IF io = "create"
               THEN IncludeResult("error", Sess(r.body, s.imports, s.units))
               ELSE IncludeResult("nil", Sess(r.body, s.imports,
                                              Append(s.units, DeclsOf(r)))) :
               r \in {stripDecls(Stripping(src.Decls, s.body), 1, includingMain)}})

\* actionImport(s, path): the import is added when the importer resolves it
actionImport(imps, path) ==
    IF path \in KnownPkgs
    THEN [err |-> "nil", imports |-> imps \cup {path}]
    ELSE [err |-> "error", imports |-> imps]

\* Session.importPackages: the imports of the file are imported one by one,
\* the error of actionImport is dropped
importPackages(src, s) ==
    IF src.ok # "ok" THEN IncludeResult("error", s)
    ELSE IncludeResult("nil", Sess(s.body, s.imports \cup (src.Imports \cap KnownPkgs),
                                   s.units))

\* Session.includeFile
includeFile(file, includingMain, s, io) ==
    IF file.ok = "noent" THEN IncludeResult("error", s)
    ELSE IF importPackages(file, s).err # "nil" THEN IncludeResult("error", s)
    ELSE importFile(file, includingMain, importPackages(file, s).s, io)

\* Session.includeFiles: the first file that fails ends the loop
RECURSIVE includeFiles(_, _, _)
includeFiles(files, s, io) ==
    IF files = <<>> THEN IncludeResult("nil", s)
    ELSE Only({IF r.err # "nil" THEN r ELSE includeFiles(Tail(files), r.s, io) :
               r \in {includeFile(Head(files), FALSE, s, io)}})

\* a package as build.Import resolves it: its Go files, or no package
NoPkg == [resolves |-> FALSE, GoFiles |-> <<>>, given |-> FALSE]

Pkg(resolves, files) == [resolves |-> resolves, GoFiles |-> files, given |-> TRUE]

\* Session.includePackage
includePackage(pkg, s, io) ==
    IF ~pkg.resolves THEN IncludeResult("error", s)
    ELSE includeFiles(pkg.GoFiles, s, io)

\* Session.Init after the initial source is parsed: the external files and
\* the package are included, an error of either panics
SessionInit(extFiles, dotPkg, io) ==
    Only({IF r1.err # "nil" THEN IncludeResult("panic", r1.s)
          ELSE IF ~dotPkg.given THEN r1
          ELSE Only({IF r2.err # "nil" THEN IncludeResult("panic", r2.s) ELSE r2 :
                     r2 \in {includePackage(dotPkg, r1.s, io)}}) :
          r1 \in {IF Len(extFiles) > 0
                  THEN includeFiles(extFiles, Sess(<<>>, {printerPkg}, <<>>), io)
                  ELSE IncludeResult("nil", Sess(<<>>, {printerPkg}, <<>>))}})

\* the outcome of Session.Run: exit status 0, an *exec.ExitError with status
\* 2 or 1, or an error that is no ExitError (os.Create, printer, exec)
RunResults == {"ok", "exit2", "exit1", "error"}

IsExitError(res) == res \in {"exit2", "exit1"}

ExitStatus(res) == CASE res = "exit2" -> 2 [] res = "exit1" -> 1 [] OTHER -> 0

\* the command Eval runs for the input, 0 when none: the first command
\* whose name follows ":" and is followed by the end or by a space
RECURSIVE matchCommand(_, _)
matchCommand(text, i) ==
    IF i > Len(commands) THEN 0
    ELSE LET arg == TrimPrefix(text, <<":">> \o commands[i]) IN
         IF arg = text THEN matchCommand(text, i + 1)
         ELSE IF arg = <<>> \/ HasPrefix(arg, <<" ">>) THEN i
         ELSE matchCommand(text, i + 1)

commandArg(text, i) == TrimSpace(TrimPrefix(text, <<":">> \o commands[i]))

\* the paths of the files the directive ":read" may find
ReadPaths == {<<"m">>}

\* ioutil.ReadFile(path) in the file system files: any other path cannot be
\* read
FileAt(files, path) ==
    IF path \in DOMAIN files THEN files[path] ELSE SourceFile("noent", {}, <<>>)

\* what Eval meets outside the session: the answer of the file system to
\* importFile and the files it holds
Env(io, files) == [io |-> io, files |-> files]

\* the parameters of the session (Session.AutoImports, ExtFiles, DotPkg)
Config(auto, extFiles, dotPkg) ==
    [AutoImports |-> auto, ExtFiles |-> extFiles, DotPkg |-> dotPkg]

\* command.action(s, arg): its error and the session it leaves.  ":read"
\* is includeFile with includingMain, ":reset" is Session.reset, which
\* panics inside Init when an include fails
commandAction(name, arg, s, cfg, env) ==
    CASE name = <<"q","u","i","t">> -> IncludeResult(ErrQuit, s)
      [] name = <<"i","m","p","o","r","t">> ->
           IncludeResult(actionImport(s.imports, arg).err,
                         Sess(s.body, actionImport(s.imports, arg).imports, s.units))
      [] name = <<"r","e","a","d">> -> includeFile(FileAt(env.files, arg), TRUE, s, env.io)
      [] name = <<"r","e","s","e","t">> -> SessionInit(cfg.ExtFiles, cfg.DotPkg, env.io)
      [] OTHER -> IncludeResult("nil", s)

\* what a call of Eval did, as main sees it after the call
NoCycle ==
    [src |-> <<>>, pre |-> <<>>, parse |-> "none", exprErr |-> "none",
     stmtErr |-> "none", appended |-> <<>>, lens |-> <<>>, actions |-> 0,
     fixed |-> FALSE, executed |-> FALSE, status |-> "none", restored |-> FALSE,
     reported |-> FALSE, ret |-> "none", accepted |-> FALSE,
     preImports |-> {}, preUnits |-> <<>>]

\* the record of a call of Eval on text that has started on the session s
StartCycle(text, body0, imps, units) ==
    [NoCycle EXCEPT !.src = text, !.pre = body0, !.preImports = imps,
                    !.preUnits = units]

\* what Eval returns and the session it leaves
EvalResult(ret, body, imps, units, stored, cyc) ==
    [ret |-> ret, body |-> body, imports |-> imps, units |-> units,
     stored |-> stored, cyc |-> cyc]

\* Eval, from s.Run() on: status 2 restores the body, every error is reported
\* and returned
EvalRun(parsed, body1, body2, imps, units, stored, res) ==
    LET body3   == doQuickFix(body2)
        restore == res # "ok" /\ IsExitError(res) /\ ExitStatus(res) = 2
        panics  == restore /\ restorePanics(body3, stored)
        body4   == IF restore /\ ~panics THEN restoreMainBody(body3, stored) ELSE body3
        ret     == IF panics THEN "panic" ELSE IF res = "ok" THEN "nil" ELSE "err"
    IN  EvalResult(ret, body4, imps, units, stored,
                   [parsed EXCEPT
                      !.lens = <<stored, Len(body1), Len(body2), Len(body3), Len(body4)>>,
                      !.executed = TRUE, !.status = res, !.restored = restore,
                      !.reported = (res # "ok" /\ ~panics), !.ret = ret])

\* Eval, no command was found and the parses gave e (evalExpr) and st
\* (evalStmt, when evalExpr failed): ErrContinue for a scanner.ErrorList,
\* otherwise fixImports when AutoImports is set, and the run
EvalParsed(start, e, st, imps, units, auto, stored, res) ==
    LET parsed == [start EXCEPT
                     !.parse = IF e.err = "none" THEN "expr"
                               ELSE IF st.err = "none" THEN "stmts" ELSE "error",
                     !.exprErr = e.err,
                     !.stmtErr = IF e.err = "none" THEN "none" ELSE st.err,
                     !.appended = SubSeq(st.body, stored + 1, Len(st.body)),
                     !.fixed = auto]
    IN
    IF e.err # "none" /\ st.err # "none" /\ IsErrorList(st.err)
    THEN EvalResult(ErrContinue, st.body, imps, units, stored,
                    [parsed EXCEPT !.lens = <<stored, Len(st.body)>>, !.fixed = FALSE,
                                   !.ret = ErrContinue])
    ELSE EvalRun(parsed, st.body,
                 IF auto THEN fixImportsBody(st.body) ELSE st.body,
                 IF auto THEN fixImportsImports(imps) ELSE imps,
                 units, stored, res)

\* (mutant) commandRan is not set: Eval goes on to the parses
EvalCommand_FallsThrough(start, name, arg, body0, imps, units, cfg, env) ==
    EvalParsed(start, [err |-> "malformed", body |-> body0],
               [err |-> "malformed", body |-> body0],
               commandAction(name, arg, Sess(body0, imps, units), cfg, env).s.imports,
               units, FALSE, Len(body0), "ok")

\* Eval, a command was found: its action runs, ErrQuit is returned at once,
\* any other error is reported and nil is returned after doQuickFix; reset
\* leaves the zero storedBodyLength of the new session
EvalCommand(start, name, arg, body0, imps, units, cfg, env) ==
    Only({
    IF a.err = "panic"
    THEN EvalResult("panic", a.s.body, a.s.imports, a.s.units, stored,
                    [start EXCEPT !.parse = "command", !.actions = 1,
                                  !.lens = <<Len(body0)>>, !.ret = "panic"])
    ELSE IF a.err = ErrQuit
    THEN EvalResult(ErrQuit, body0, a.s.imports, a.s.units, stored,
                    [start EXCEPT !.parse = "command", !.actions = 1,
                                  !.lens = <<Len(body0)>>, !.ret = ErrQuit])
    ELSE EvalResult("nil", doQuickFix(a.s.body), a.s.imports, a.s.units, stored,
                    [start EXCEPT !.parse = "command", !.actions = 1,
                                  !.lens = <<Len(body0), Len(doQuickFix(a.s.body))>>,
                                  !.reported = (a.err # "nil"), !.ret = "nil"]) :
    a \in {commandAction(name, arg, Sess(body0, imps, units), cfg, env)},
    stored \in {IF name = <<"r","e","s","e","t">> THEN 0 ELSE Len(body0)}})

\* Eval after clearQuickFix and storeMainBody
EvalStored(text, body0, imps, units, cfg, i, e, res, env) ==
    IF i # 0
    THEN EvalCommand(StartCycle(text, body0, imps, units),
                     commands[i], commandArg(text, i), body0, imps, units, cfg, env)
    ELSE EvalParsed(StartCycle(text, body0, imps, units),
                    e, IF e.err # "none" THEN evalStmt(body0, text) ELSE e,
                    imps, units, cfg.AutoImports, storeMainBody(body0), res)

\* Session.Eval(in) on the session given, the program exiting with res if it
\* is run and the file system answering io: what Eval returns and the
\* session it leaves
Eval(text, body, imps, units, cfg, res, env) ==
    EvalStored(text, clearQuickFix(body), imps, units, cfg, matchCommand(text, 1),
               evalExpr(clearQuickFix(body), text), res, env)

\* ------------------------------------------------------------------ main

\* the lines the user types
Lines ==
    { <<>>,
      <<"1+1">>, <<"x:=1">>, <<"x,_:=f()">>, <<"_=f()">>,
      <<"var y", ";", "x,_:=f()">>, <<"x:=1", ";", "var y">>, <<";">>,
      <<"if true", "{">>, <<"}">>, <<"(">>, <<"1+1", ")">>,
      <<":","q","u","i","t">>, <<":","q","u","i","t","x">>, <<":","f","o","o">>,
      <<":","i","m","p","o","r","t"," ","o","s">>,
      <<":","i","m","p","o","r","t"," ","z","z">>,
      <<":","r","e","a","d"," ","m">>, <<":","r","e","s","e","t">> }

\* a file of the user with one function, and one with a function and an
\* entry procedure whose body is an empty statement
LibFile == SourceFile("ok", {}, <<FuncDecl("f", <<>>)>>)

MainFile ==
    SourceFile("ok", {<<"o", "s">>},
               <<FuncDecl("f", <<>>),
                 FuncDecl("main", <<Stmt("EmptyStmt", <<>>, <<>>, <<>>)>>)>>)

\* what the operations of one step printed for the user
Said(got, text) == [got |-> got, said |-> text]

\* main.go:110-112, the channel is made, the relay goroutine is started and
\* signal.Notify registers the channel
Arm(r) ==
    [r EXCEPT !.listening = r.listening + 1, !.chanSig = 0,
              !.waiting = r.waiting + 1]

\* (mutant) the channel is not closed
StopClose_NoClose(r) == [r EXCEPT !.listening = r.listening - 1]

\* signal.Stop(c) and close(c): the goroutine that has not received yet
\* finds its channel closed
StopClose(r) ==
    [r EXCEPT !.listening = r.listening - 1, !.chanSig = 0, !.waiting = 0,
              !.closing = r.closing + r.waiting]

Relay == [listening |-> listening, chanSig |-> chanSig, waiting |-> waiting,
          closing |-> closing]

SetRelay(r) ==
    /\ listening' = r.listening
    /\ chanSig' = r.chanSig
    /\ waiting' = r.waiting
    /\ closing' = r.closing

\* the loop of main starts after Session.Init and NewContLiner
LoopInit ==
    /\ pc = "prompt"
    /\ in = <<>>
    /\ buffer = <<>>
    /\ depth = 0
    /\ history = <<>>
    /\ mainBody = SessionInit(ExtFiles, DotPkg, "ok").s.body
    /\ storedBodyLength = 0
    /\ imports = SessionInit(ExtFiles, DotPkg, "ok").s.imports
    /\ extraFiles = SessionInit(ExtFiles, DotPkg, "ok").s.units
    /\ cycle = NoCycle
    /\ pending = <<>>
    /\ prompts = 0
    /\ event = Said("none", "")
    /\ listening = 0
    /\ chanSig = 0
    /\ waiting = 0
    /\ closing = 0

Init ==
    /\ AutoImports \in BOOLEAN
    /\ ExtFiles \in {<<>>, <<LibFile>>}
    /\ DotPkg = NoPkg
    /\ fs = [p \in ReadPaths |-> MainFile]
    /\ LoopInit

\* rl.Prompt returns a line; main skips an empty input, calls rl.Reindent
\* and, on its error, rl.Clear; otherwise it arms the interrupt listener
PromptLine(line) ==
    /\ pc = "prompt"
    /\ prompts < MaxPrompts
    /\ prompts' = prompts + 1
    /\ LET buf == PromptBuffer(buffer, line)
           d   == countDepth(buf)
       IN  /\ in' = buf
           /\ IF buf = <<>>
              THEN /\ buffer' = buf
                   /\ depth' = depth
                   /\ pc' = "prompt"
                   /\ event' = Said("line", "")
                   /\ UNCHANGED relay
              ELSE IF errUnmatchedBraces(d)
              THEN /\ buffer' = Clear(Liner(buf, d)).buffer
                   /\ depth' = Clear(Liner(buf, d)).depth
                   /\ pc' = "prompt"
                   /\ event' = Said("line", "error: unmatched braces")
                   /\ UNCHANGED relay
              ELSE /\ buffer' = buf
                   /\ depth' = d
                   /\ pc' = "eval"
                   /\ event' = Said("line", "")
                   /\ SetRelay(Arm(Relay))
    /\ pending' = IF buffer' = <<>> THEN <<>> ELSE Append(pending, line)
    /\ cycle' = NoCycle
    /\ UNCHANGED <<history, session, config>>

\* rl.Prompt at the end of the input: a continuation is accepted and the
\* loop goes on, an empty buffer ends the loop
PromptEOF ==
    /\ pc = "prompt"
    /\ prompts < MaxPrompts
    /\ prompts' = prompts + 1
    /\ in' = <<>>
    /\ IF buffer # <<>>
       THEN /\ history' = AppendHistory(history, buffer)
            /\ buffer' = Accepted(Liner(buffer, depth)).buffer
            /\ pc' = "prompt"
            /\ event' = Said("eof", NL)
       ELSE /\ history' = history
            /\ buffer' = buffer
            /\ pc' = "done"
            /\ event' = Said("eof", "")
    /\ pending' = <<>>
    /\ cycle' = NoCycle
    /\ UNCHANGED <<depth, session, config, relay>>

\* rl.Prompt aborted by ^C: a continuation is accepted, an empty buffer
\* only prints the hint
PromptAborted ==
    /\ pc = "prompt"
    /\ prompts < MaxPrompts
    /\ prompts' = prompts + 1
    /\ in' = <<>>
    /\ history' = IF buffer # <<>> THEN AppendHistory(history, buffer) ELSE history
    /\ event' = Said("aborted", IF buffer # <<>> THEN "" ELSE "(^D to quit)")
    /\ buffer' = IF buffer # <<>> THEN Accepted(Liner(buffer, depth)).buffer ELSE buffer
    /\ pending' = <<>>
    /\ cycle' = NoCycle
    /\ UNCHANGED <<pc, depth, session, config, relay>>

\* rl.Prompt fails with another error: main prints it and exits
PromptFailed ==
    /\ pc = "prompt"
    /\ prompts < MaxPrompts
    /\ prompts' = prompts + 1
    /\ in' = buffer
    /\ pc' = "exit"
    /\ event' = Said("error", "fatal")
    /\ cycle' = NoCycle
    /\ UNCHANGED <<buffer, depth, history, pending, session, config, relay>>

\* what the program run by Eval and the file system may answer: a
\* directive runs no program, an input that is no directive includes no file
Outcomes ==
    {[res |-> r, io |-> "ok"] : r \in RunResults} \cup
    {[res |-> "ok", io |-> i] : i \in IOResults}

\* s.Eval(in) of main on the session, under the outcome o
MainEval(o) ==
    Eval(in, mainBody, imports, extraFiles, Config(AutoImports, ExtFiles, DotPkg),
         o.res, Env(o.io, fs))

\* what Eval leaves in the session
Evaluated(r) ==
    /\ mainBody' = r.body
    /\ imports' = r.imports
    /\ extraFiles' = r.units
    /\ storedBodyLength' = r.stored

\* s.Eval(in) returns ErrContinue: the listener is stopped and main goes to
\* the next prompt
EvalContinue ==
    /\ pc = "eval"
    /\ \E o \in Outcomes : \E r \in {MainEval(o)} :
         /\ r.ret = ErrContinue
         /\ Evaluated(r)
         /\ cycle' = r.cyc
    /\ SetRelay(StopClose(Relay))
    /\ pc' = "prompt"
    /\ UNCHANGED <<in, buffer, depth, history, pending, prompts, event, config>>

\* s.Eval(in) returns ErrQuit: the listener is stopped and main leaves the
\* loop
EvalQuit ==
    /\ pc = "eval"
    /\ \E o \in Outcomes : \E r \in {MainEval(o)} :
         /\ r.ret = ErrQuit
         /\ Evaluated(r)
         /\ cycle' = r.cyc
    /\ SetRelay(StopClose(Relay))
    /\ pc' = "done"
    /\ UNCHANGED <<in, buffer, depth, history, pending, prompts, event, config>>

\* s.Eval(in) returns nil or another error: main prints the error, stops
\* the listener and calls rl.Accepted
EvalAccepted ==
    /\ pc = "eval"
    /\ \E o \in Outcomes : \E r \in {MainEval(o)} :
         /\ r.ret \notin {ErrContinue, ErrQuit, "panic"}
         /\ Evaluated(r)
         /\ cycle' = [r.cyc EXCEPT !.accepted = TRUE,
                                   !.reported = r.cyc.reported \/ r.ret # "nil"]
    /\ SetRelay(StopClose(Relay))
    /\ history' = AppendHistory(history, buffer)
    /\ buffer' = Accepted(Liner(buffer, depth)).buffer
    /\ pending' = <<>>
    /\ pc' = "prompt"
    /\ UNCHANGED <<in, depth, prompts, event, config>>

\* s.Eval(in) panics (Session.Init under ":reset", the slices of importFile
\* and restoreMainBody): the process is gone
EvalPanics ==
    /\ pc = "eval"
    /\ \E o \in Outcomes : \E r \in {MainEval(o)} :
         /\ r.ret = "panic"
         /\ Evaluated(r)
         /\ cycle' = r.cyc
    /\ pc' = "panic"
    /\ UNCHANGED <<in, buffer, depth, history, pending, prompts, event, config, relay>>

Next ==
    \/ \E line \in Lines : PromptLine(line)
    \/ PromptEOF
    \/ PromptAborted
    \/ PromptFailed
    \/ EvalContinue
    \/ EvalQuit
    \/ EvalAccepted
    \/ EvalPanics

Spec == Init /\ [][Next]_vars

\* ---------------------------------------- Reindent on every brace buffer

BraceTokens == {"{", "}", "x"}

BraceTexts == UNION {[1..n -> BraceTokens] : n \in 0..MaxBraces}

DepthInit ==
    /\ AutoImports = FALSE
    /\ ExtFiles = <<>>
    /\ DotPkg = NoPkg
    /\ fs = [p \in ReadPaths |-> MainFile]
    /\ pc = "reindent"
    /\ buffer \in BraceTexts
    /\ in = buffer
    /\ depth = 0
    /\ history = <<>>
    /\ mainBody = <<>>
    /\ storedBodyLength = 0
    /\ imports = {printerPkg}
    /\ extraFiles = <<>>
    /\ cycle = NoCycle
    /\ pending = <<>>
    /\ prompts = 0
    /\ event = Said("none", "")
    /\ listening = 0
    /\ chanSig = 0
    /\ waiting = 0
    /\ closing = 0

\* ContLiner.Reindent
Reindent ==
    /\ pc = "reindent"
    /\ depth' = countDepth(buffer)
    /\ pc' = IF errUnmatchedBraces(depth') THEN "errUnmatchedBraces" ELSE "reindented"
    /\ UNCHANGED <<in, buffer, history, cycle, pending, prompts, event,
                   session, config, relay>>

DepthSpec == DepthInit /\ [][Reindent]_vars

\* ------------------------------------------------ the interrupt relay

\* the user interrupts while Eval runs: the signal is sent to the channel
\* registered without blocking (a full channel drops it); with no channel
\* registered it ends the process
Interrupt ==
    /\ pc = "eval"
    /\ IF listening > 0
       THEN /\ chanSig' = 1
            /\ pc' = pc
       ELSE /\ chanSig' = chanSig
            /\ pc' = "killed"
    /\ UNCHANGED <<in, buffer, depth, history, cycle, pending, prompts, event,
                   session, config, listening, waiting, closing>>

\* the relay goroutine, "<-c" on the open channel: it receives the signal
\* and returns
RelayReceive ==
    /\ waiting > 0
    /\ chanSig > 0
    /\ chanSig' = chanSig - 1
    /\ waiting' = waiting - 1
    /\ UNCHANGED <<pc, in, buffer, depth, history, cycle, pending, prompts, event,
                   session, config, listening, closing>>

\* the relay goroutine, "<-c" on a closed channel: it returns
RelayExit ==
    /\ closing > 0
    /\ closing' = closing - 1
    /\ UNCHANGED <<pc, in, buffer, depth, history, cycle, pending, prompts, event,
                   session, config, listening, chanSig, waiting>>

\* lines for each way Eval returns: nil or an error, ErrContinue, ErrQuit
RelayLines ==
    {<<"1+1">>, <<"(">>, <<":","q","u","i","t">>,
     <<":","i","m","p","o","r","t"," ","z","z">>}

RelayNext ==
    \/ \E line \in RelayLines : PromptLine(line)
    \/ PromptEOF
    \/ PromptAborted
    \/ PromptFailed
    \/ EvalContinue
    \/ EvalQuit
    \/ EvalAccepted
    \/ Interrupt
    \/ RelayReceive
    \/ RelayExit

\* the goroutines are scheduled: one that can return does
RelaySpec == Init /\ [][RelayNext]_vars /\ WF_vars(RelayExit) /\ WF_vars(RelayReceive)

\* ------------------------------------- Session.Init and ":read" on files

\* the names of the functions a file declares
DeclNames == {"main", printerName, "f", "g"}

\* the lists of at most MaxDecls names, no name twice (go/parser reports a
\* name declared twice)
DeclLists ==
    {l \in UNION {[1..n -> DeclNames] : n \in 0..MaxDecls} :
       \A i, j \in 1..Len(l) : i # j => l[i] # l[j]}

\* the file that declares the functions named, after an import of "os" when
\* withImport; the body of main is one assignment
DeclFile(names, withImport) ==
    SourceFile("ok", IF withImport THEN {<<"o", "s">>} ELSE {},
               (IF withImport THEN <<ImportDecl>> ELSE <<>>) \o
               [i \in 1..Len(names) |->
                  FuncDecl(names[i],
                           IF names[i] = "main"
                           THEN <<Stmt("AssignStmt", <<"x:=1">>, LhsOf("x:=1"), <<>>)>>
                           ELSE <<>>)])

\* the files ":read" may be given
ReadFiles ==
    {DeclFile(l, w) : l \in DeclLists, w \in BOOLEAN} \cup
    {SourceFile("syntax", {}, <<>>), SourceFile("noent", {}, <<>>)}

\* the files -context and the package of -pkg may name
ContextFiles ==
    {LibFile, DeclFile(<<"g">>, TRUE), SourceFile("syntax", {}, <<>>),
     SourceFile("noent", {}, <<>>)}

ContextLists == UNION {[1..n -> ContextFiles] : n \in 0..MaxFiles}

DotPkgs ==
    {NoPkg, Pkg(FALSE, <<>>), Pkg(TRUE, <<LibFile>>),
     Pkg(TRUE, <<DeclFile(<<"g">>, TRUE), SourceFile("syntax", {}, <<>>)>>)}

\* main before s.Init(): the session is the zero value
IncludeInit ==
    /\ AutoImports = FALSE
    /\ \/ /\ ExtFiles \in ContextLists
          /\ DotPkg \in DotPkgs
          /\ fs = [p \in ReadPaths |-> MainFile]
       \/ /\ ExtFiles \in {<<f>> : f \in ReadFiles}
          /\ DotPkg = NoPkg
          /\ fs = [p \in ReadPaths |-> MainFile]
       \/ /\ ExtFiles = <<>>
          /\ DotPkg = NoPkg
          /\ fs \in [ReadPaths -> ReadFiles]
    /\ pc = "init"
    /\ in = <<>>
    /\ buffer = <<>>
    /\ depth = 0
    /\ history = <<>>
    /\ mainBody = <<>>
    /\ storedBodyLength = 0
    /\ imports = {}
    /\ extraFiles = <<>>
    /\ cycle = NoCycle
    /\ pending = <<>>
    /\ prompts = 0
    /\ event = Said("none", "")
    /\ listening = 0
    /\ chanSig = 0
    /\ waiting = 0
    /\ closing = 0

\* s.Init() of main: a failing include panics, otherwise the loop starts
SessionStart ==
    /\ pc = "init"
    /\ \E io \in IOResults : \E r \in {SessionInit(ExtFiles, DotPkg, io)} :
         /\ mainBody' = r.s.body
         /\ imports' = r.s.imports
         /\ extraFiles' = r.s.units
         /\ pc' = IF r.err = "panic" THEN "panic" ELSE "prompt"
    /\ UNCHANGED <<in, buffer, depth, history, storedBodyLength, cycle, pending,
                   prompts, event, config, relay>>

\* the directive ":read" on the path that is a file and on one that is none
ReadM == <<":","r","e","a","d"," ","m">>

IncludeLines == {ReadM, <<":","r","e","a","d"," ","n">>}

IncludeNext ==
    \/ SessionStart
    \/ \E line \in IncludeLines : PromptLine(line)
    \/ EvalAccepted
    \/ EvalPanics

IncludeSpec == IncludeInit /\ [][IncludeNext]_vars

\* ----------------------------------------------------------------- claims

\* the last call of Eval was on an input that is no directive
InputCycle == cycle.ret # "none" /\ matchCommand(cycle.src, 1) = 0

\* C1 (as claimed): after a cycle on a non-directive input, ProcedureBody
\* differs from its value before the cycle only if the program ran with exit
\* status 0; after a parse failure, status 2, another non-zero status or a
\* failure to write or launch the program it is the body before the cycle.
C1_UnchangedUnlessSuccess ==
    InputCycle /\ cycle.status # "ok" => mainBody = cycle.pre

\* the body of the cycle as Run sees it: the body before the cycle extended
\* by the statements appended, read back by fixImports when AutoImports is set
BodyRun ==
    IF AutoImports THEN fixImportsBody(cycle.pre \o cycle.appended)
    ELSE cycle.pre \o cycle.appended

\* C1 (amended): after a cycle on a non-directive input that Eval returned
\* from, ProcedureBody is the body before the cycle when the input did not
\* parse (need more input, nothing is run); when the program exited with
\* status 2 it is the body Run saw cut to the checkpoint length, which is the
\* body before the cycle whenever AutoImports is off or that body holds no
\* empty statement; after exit status 0, any other non-zero status and a
\* failure to write or launch the program it is the body before the cycle
\* extended by the statements the cycle appended (as read back by FixImports
\* when AutoImports is set).
C1_UnchangedOnlyOnStatus2 ==
    InputCycle /\ cycle.ret # "panic" =>
      /\ cycle.ret = ErrContinue => ~cycle.executed /\ mainBody = cycle.pre
      /\ cycle.status = "exit2" =>
           /\ mainBody = restoreMainBody(BodyRun, Len(cycle.pre))
           /\ ~AutoImports \/ Reparse(cycle.pre) = cycle.pre => mainBody = cycle.pre
      /\ cycle.status \in {"ok", "exit1", "error"} => mainBody = BodyRun

\* a cycle that ended with exit status 1 and kept the statements it appended
C1_Witness ==
    /\ InputCycle
    /\ cycle.status = "exit1"
    /\ cycle.pre # <<>>
    /\ Len(mainBody) > Len(cycle.pre)

\* C2: after a cycle in which the program exited with status 2, ProcedureBody
\* is the body before the cycle (same length, same statements in the same
\* order), however many statements were appended and whether or not
\* fixImports ran; the error is reported and main is at the next prompt.
C2_RollbackExact ==
    InputCycle /\ cycle.status = "exit2" =>
      /\ mainBody = cycle.pre
      /\ Len(mainBody) = cycle.lens[1]
      /\ cycle.restored
      /\ cycle.reported
      /\ pc = "prompt"

\* status 2 after fixImports ran on a body of two statements extended by two
C2_Witness ==
    /\ InputCycle
    /\ cycle.status = "exit2"
    /\ cycle.fixed
    /\ Len(cycle.pre) >= 2
    /\ Len(cycle.appended) >= 2
    /\ cycle.lens[4] > cycle.lens[1]
    /\ mainBody = cycle.pre

\* C3: when the expression parse and the statement parse of the input both
\* fail with an incomplete-input error, Eval returns ErrContinue, the program
\* is not run, the body is not restored and not changed, and main reports no
\* error and keeps the buffer (Accepted is not called).
C3_IncompleteContinues ==
    InputCycle /\ cycle.exprErr = "incomplete" /\ cycle.stmtErr = "incomplete" =>
      /\ cycle.ret = ErrContinue
      /\ ~cycle.executed
      /\ ~cycle.restored
      /\ mainBody = cycle.pre
      /\ ~cycle.reported
      /\ ~cycle.accepted
      /\ buffer = cycle.src
      /\ pc = "prompt"

\* "(" was evaluated on a body that holds statements
C3_Witness ==
    /\ InputCycle
    /\ cycle.src = <<"(">>
    /\ cycle.exprErr = "incomplete"
    /\ cycle.stmtErr = "incomplete"
    /\ cycle.pre # <<>>
    /\ cycle.ret = ErrContinue

\* C4 (as claimed): when the input parses neither as an expression nor as
\* statements and the failure is malformed, the error is reported, the body
\* is restored and equals the body before the cycle, the program is not run,
\* and the editor finalizes the input (Accepted: the buffer is empty).
C4_MalformedReportedAndFinalized ==
    InputCycle /\ cycle.exprErr # "none" /\ cycle.stmtErr = "malformed" =>
      /\ cycle.reported
      /\ cycle.restored
      /\ ~cycle.executed
      /\ mainBody = cycle.pre
      /\ cycle.accepted
      /\ buffer = <<>>

\* the lengths of the body along a cycle: at the checkpoint, after the
\* statements were appended, after fixImports, after doQuickFix, after the run
NonDecreasingButRollback(lens, restored) ==
    \A k \in 1..(Len(lens) - 1) :
       \/ lens[k + 1] >= lens[k]
       \/ restored /\ k + 1 = Len(lens) /\ lens[k + 1] = lens[1]

\* C5 (as claimed): in a cycle on a non-directive input the length of
\* ProcedureBody never decreases except by the restore to the checkpoint of
\* that cycle, it is at the end of the cycle at least what it was at the
\* start, and a committed cycle (exit status 0) that appended at least one
\* statement ends with a body longer by at least one (so N such cycles in a
\* row end with at least N more statements).
C5_LengthMonotone ==
    InputCycle =>
      /\ NonDecreasingButRollback(cycle.lens, cycle.restored)
      /\ Len(mainBody) >= cycle.lens[1]
      /\ cycle.status = "ok" /\ Len(cycle.appended) >= 1 =>
           Len(mainBody) >= cycle.lens[1] + 1

\* the echo of evalStmt for the targets given
EchoOf(targets) == CallStmt(printerName, targets)

\* the targets of an assignment that are not the identifier "_"
NotDiscarded(lhs) == SelectSeq(lhs, LAMBDA v : v # <<"_">>)

\* C6 (as claimed): an input that parses as an expression appends exactly
\* the echo of that expression; an input that parses as n >= 1 statements
\* appends them in order, followed by exactly one echo if and only if the
\* last statement is an assignment, the echo naming its targets other than
\* "_" in their order.
C6_EchoIffLastIsAssignment ==
    InputCycle =>
      /\ cycle.parse = "expr" =>
           cycle.appended = <<EchoOf(<<ParseExpr(cycle.src).val>>)>>
      /\ cycle.parse = "stmts" /\ Len(ParseStmts(cycle.src).val) >= 1 =>
           LET stmts == ParseStmts(cycle.src).val
               last  == stmts[Len(stmts)]
           IN  cycle.appended =
                 IF last.kind = "AssignStmt"
                 THEN stmts \o <<EchoOf(NotDiscarded(last.Lhs))>>
                 ELSE stmts

\* C6 (amended): an input that parses as an expression appends exactly the
\* echo of that expression; an input that parses as n >= 1 statements appends
\* them in order, followed by exactly one echo if and only if the last
\* statement is an assignment with at least one target other than "_", the
\* echo naming those targets in their order; an assignment whose targets are
\* all "_" gets no echo.
C6_EchoIffNamedTarget ==
    InputCycle =>
      /\ cycle.parse = "expr" =>
           cycle.appended = <<EchoOf(<<ParseExpr(cycle.src).val>>)>>
      /\ cycle.parse = "stmts" /\ Len(ParseStmts(cycle.src).val) >= 1 =>
           LET stmts == ParseStmts(cycle.src).val
               last  == stmts[Len(stmts)]
           IN  cycle.appended =
                 IF last.kind = "AssignStmt" /\ NotDiscarded(last.Lhs) # <<>>
                 THEN stmts \o <<EchoOf(NotDiscarded(last.Lhs))>>
                 ELSE stmts

\* "var y; x, _ := f()" appended its two statements and the echo of x
C6_Witness ==
    /\ InputCycle
    /\ cycle.src = <<"var y", ";", "x,_:=f()">>
    /\ Len(cycle.appended) = 3
    /\ cycle.appended[3] = EchoOf(<< <<"x">> >>)
    /\ cycle.executed

\* the braces of a text matched as brackets are: the opening delimiters left
\* unmatched (open) and the closing delimiters with no opening one before
\* them (close)
RECURSIVE MatchBraces(_, _, _)
MatchBraces(text, open, close) ==
    IF text = <<>> THEN [open |-> open, close |-> close]
    ELSE CASE Head(text) = "{" -> MatchBraces(Tail(text), open + 1, close)
           [] Head(text) = "}" ->
                IF open > 0 THEN MatchBraces(Tail(text), open - 1, close)
                ELSE MatchBraces(Tail(text), open, close + 1)
           [] OTHER -> MatchBraces(Tail(text), open, close)

UnmatchedOpens(text) == MatchBraces(text, 0, 0).open

UnmatchedCloses(text) == MatchBraces(text, 0, 0).close

\* C7 (as claimed): after Reindent on a buffer of brace tokens, the depth is
\* the number k of unmatched opening delimiters (0 for balanced text), and
\* for text with a closing delimiter that no opening one precedes the depth
\* is negative and Reindent returns errUnmatchedBraces.
C7_DepthIsUnmatchedOpens ==
    pc \in {"reindented", "errUnmatchedBraces"} =>
      /\ UnmatchedCloses(buffer) = 0 => depth = UnmatchedOpens(buffer)
      /\ UnmatchedCloses(buffer) > 0 => depth < 0 /\ pc = "errUnmatchedBraces"

\* C7 (amended): after Reindent on a buffer of brace tokens, the depth is the
\* number of opening delimiters minus the number of closing ones: it is the
\* number k of unmatched opening delimiters when no closing delimiter is
\* unmatched, 0 for balanced text, and it is negative, with Reindent
\* returning errUnmatchedBraces, exactly when the unmatched closing
\* delimiters outnumber the unmatched opening ones; a closing delimiter that
\* precedes as many opening ones ("}{") leaves depth 0 and no error.
C7_DepthIsOpensMinusCloses ==
    pc \in {"reindented", "errUnmatchedBraces"} =>
      /\ depth = UnmatchedOpens(buffer) - UnmatchedCloses(buffer)
      /\ UnmatchedCloses(buffer) = 0 => depth = UnmatchedOpens(buffer)
      /\ pc = "errUnmatchedBraces" <=>
           UnmatchedCloses(buffer) > UnmatchedOpens(buffer)

\* Reindent accepted "}{" with depth 0
C7_Witness ==
    /\ pc = "reindented"
    /\ buffer = <<"}", "{">>
    /\ depth = 0

\* the lines joined by line breaks
RECURSIVE JoinLines(_)
JoinLines(lines) ==
    IF lines = <<>> THEN <<>>
    ELSE IF Len(lines) = 1 THEN lines[1]
    ELSE lines[1] \o <<NL>> \o JoinLines(Tail(lines))

\* C8: the buffer is the lines read since it was last empty, joined by one
\* line break each, and that is the string handed to Eval; while Eval returns
\* ErrContinue the buffer is kept; "if true {" leaves the editor accumulating
\* at depth 1, and a following "}" gives depth 0 and hands the whole block to
\* Eval, which appends it as one statement.
C8_BufferIsLinesJoined ==
    /\ buffer = JoinLines(pending)
    /\ pc = "eval" => in = JoinLines(pending) /\ pending # <<>>
    /\ cycle.ret = ErrContinue => buffer = cycle.src /\ pc = "prompt"
    /\ cycle.src = <<"if true", "{">> =>
         cycle.ret = ErrContinue /\ depth = 1 /\ buffer # <<>>
    /\ pc = "eval" /\ pending = << <<"if true", "{">>, <<"}">> >> =>
         in = <<"if true", "{", NL, "}">> /\ depth = 0
    /\ cycle.src = <<"if true", "{", NL, "}">> =>
         cycle.parse = "stmts" /\ Len(cycle.appended) = 1 /\ cycle.executed

\* the block typed on two lines was evaluated as one input and accepted
C8_Witness ==
    /\ cycle.src = <<"if true", "{", NL, "}">>
    /\ cycle.appended[1].kind = "IfStmt"
    /\ cycle.accepted
    /\ history[Len(history)] = cycle.src
    /\ depth = 0

\* C9 (as claimed): an input that begins with ":" and matches no command is
\* reported as an error and changes nothing: the body is the body before the
\* cycle and the editor is idle with an empty buffer.
C9_UnknownDirectiveReported ==
    /\ cycle.ret # "none"
    /\ cycle.src # <<>>
    /\ cycle.src[1] = ":"
    /\ matchCommand(cycle.src, 1) = 0
    => /\ cycle.reported
       /\ mainBody = cycle.pre
       /\ buffer = <<>>

\* C10: an input that matches a command runs the action of that one command
\* and nothing of the evaluation path: no statement is appended, fixImports
\* and the run are not reached, the body is never restored; an error of the
\* action other than ErrQuit is reported and Eval still returns nil, so that
\* main accepts the input; ErrQuit ends the loop.  (An action that panics
\* returns nothing.)
C10_DirectiveShortCircuits ==
    cycle.ret \notin {"none", "panic"} /\ matchCommand(cycle.src, 1) # 0 =>
      LET i == matchCommand(cycle.src, 1)
          a == commandAction(commands[i], commandArg(cycle.src, i),
                             Sess(cycle.pre, cycle.preImports, cycle.preUnits),
                             Config(AutoImports, ExtFiles, DotPkg), Env("ok", fs))
      IN  /\ cycle.parse = "command"
          /\ cycle.actions = 1
          /\ cycle.appended = <<>>
          /\ ~cycle.fixed
          /\ ~cycle.executed
          /\ ~cycle.restored
          /\ cycle.ret = IF a.err = ErrQuit THEN ErrQuit ELSE "nil"
          /\ a.err = "error" => cycle.reported
          /\ cycle.ret = "nil" =>
               /\ cycle.accepted
               /\ buffer = <<>>
               /\ history[Len(history)] = cycle.src
               /\ pc = "prompt"
          /\ cycle.ret = ErrQuit => pc = "done"

\* ":import zz" failed, was reported, and the input was accepted
C10_Witness ==
    /\ cycle.src = <<":","i","m","p","o","r","t"," ","z","z">>
    /\ cycle.parse = "command"
    /\ cycle.reported
    /\ cycle.accepted
    /\ cycle.pre # <<>>
    /\ mainBody = cycle.pre
    /\ pc = "prompt"

\* the first declaration of the file that is the function name, 0 if none
DeclIndex(decls, name) ==
    IF \E k \in 1..Len(decls) : decls[k].kind = "FuncDecl" /\ decls[k].Name = <<name>>
    THEN CHOOSE k \in 1..Len(decls) :
           decls[k].kind = "FuncDecl" /\ decls[k].Name = <<name>>
    ELSE 0

\* the declarations of a file without its entry procedure and its helper
Stripped(decls) ==
    SelectSeq(decls, LAMBDA d : ~(d.kind = "FuncDecl" /\
                                   d.Name \in {<<"main">>, <<printerName>>}))

\* C11 (as claimed): an include that fails leaves the import list, the body
\* and the registered units as they were before it started: after s.Init()
\* failed on -context or -pkg they are those of the initial source, after a
\* ":read" that reported an error they are those before the cycle.
C11_IncludeAllOrNothing ==
    /\ pc = "panic" /\ cycle.ret = "none" =>
         mainBody = <<>> /\ imports = {printerPkg} /\ extraFiles = <<>>
    /\ cycle.parse = "command" /\ cycle.ret = "nil" /\ cycle.reported =>
         mainBody = cycle.pre /\ imports = cycle.preImports /\
         extraFiles = cycle.preUnits

\* C18 (as claimed): the unit registered for a file holds every declaration
\* of the file but main and __gore_p, once and in the order of the file:
\* after s.Init() included the one file of -context, and after ":read"
\* registered its unit; after ":read" the body is the body of the file's
\* main.
C18_UnitStripped ==
    /\ pc = "prompt" /\ prompts = 0 /\ Len(ExtFiles) = 1 /\ ~DotPkg.given =>
         extraFiles = <<Stripped(ExtFiles[1].Decls)>>
    /\ cycle.src = ReadM /\ cycle.ret = "nil" /\ ~cycle.reported =>
         /\ extraFiles = Append(cycle.preUnits, Stripped(fs[<<"m">>].Decls))
         /\ DeclIndex(fs[<<"m">>].Decls, "main") # 0 =>
              mainBody = fs[<<"m">>].Decls[DeclIndex(fs[<<"m">>].Decls, "main")].Body

Prompted == pc = "prompt" /\ prompts' = prompts + 1

\* C13: cancellation or end of input on a buffer that is not empty appends
\* the buffer to history, empties it, evaluates nothing and stays in the
\* loop, so the next prompt is the primary one; cancellation on an empty
\* buffer prints the hint and changes nothing; end of input on an empty
\* buffer ends the loop; an empty line on an empty buffer is skipped without
\* evaluation.
C13_CancelAndEOF ==
    [][Prompted =>
         /\ event'.got \in {"aborted", "eof"} /\ buffer # <<>> =>
              /\ history' = Append(history, buffer)
              /\ buffer' = <<>>
              /\ pc' = "prompt"
              /\ cycle' = NoCycle
              /\ UNCHANGED session
         /\ event'.got = "aborted" /\ buffer = <<>> =>
              /\ event'.said = "(^D to quit)"
              /\ pc' = "prompt"
              /\ UNCHANGED <<buffer, history, depth, session>>
         /\ event'.got = "eof" /\ buffer = <<>> =>
              /\ pc' = "done"
              /\ UNCHANGED <<buffer, history, depth, session>>
         /\ event'.got = "line" /\ buffer = <<>> /\ in' = <<>> =>
              /\ pc' = "prompt"
              /\ cycle' = NoCycle
              /\ UNCHANGED <<buffer, history, depth, session>>]_vars

\* the input "(" was cancelled at its continuation prompt: it is in history
\* and the editor is idle
C13_Witness ==
    /\ event.got = "aborted"
    /\ event.said = ""
    /\ history = << <<"(">> >>
    /\ buffer = <<>>
    /\ pc = "prompt"
    /\ cycle = NoCycle

\* C14: when the depth of the buffer with the line read is negative, the
\* error is printed, the editor is cleared (empty buffer, depth 0), nothing
\* is evaluated, the session and the history are unchanged; the line read
\* at the next prompt is a logical input of its own.
C14_UnmatchedCleared ==
    [][Prompted =>
         /\ event'.got = "line" /\ countDepth(in') < 0 =>
              /\ event'.said = "error: unmatched braces"
              /\ buffer' = <<>>
              /\ depth' = 0
              /\ pc' = "prompt"
              /\ cycle' = NoCycle
              /\ UNCHANGED <<history, session>>
         /\ event.said = "error: unmatched braces" /\ event'.got = "line" =>
              in' \in Lines]_vars

\* "}" was typed after a cycle that extended the body
C14_Witness ==
    /\ event.said = "error: unmatched braces"
    /\ in = <<"}">>
    /\ mainBody # <<>>
    /\ buffer = <<>>
    /\ depth = 0
    /\ pc = "prompt"

\* C15 (as claimed): whenever the editor waits at a prompt the stored depth
\* is the count of the buffer (opens minus closes) and is not negative; in
\* particular it is 0 when the buffer is empty.
C15_DepthIsCountOfBuffer ==
    pc = "prompt" => depth = countDepth(buffer) /\ depth >= 0

\* C15 (amended): whenever the editor waits at a prompt the stored depth is
\* not negative, and while the buffer is not empty it is the count of the
\* buffer (opens minus closes); Accepted, cancellation and end of input
\* empty the buffer and leave the depth as it was computed last, only Clear
\* sets it to 0.
C15_DepthIsCountWhileAccumulating ==
    /\ pc = "prompt" => depth >= 0 /\ (buffer # <<>> => depth = countDepth(buffer))
    /\ event.said = "error: unmatched braces" /\ pc = "prompt" => depth = 0

\* "if true {" was cancelled at its continuation prompt: the editor is idle
\* and the depth is still 1
C15_Witness ==
    /\ pc = "prompt"
    /\ event.got = "aborted"
    /\ history = << <<"if true", "{">> >>
    /\ buffer = <<>>
    /\ depth = 1

\* C16: history only grows, by one entry at a time, and the entry is the
\* whole buffer: the step in which main accepts an input appends it once,
\* as one entry holding all its lines; an input for which Eval asked for
\* more lines, an input that ended the loop and an input cleared after
\* unmatched braces are not appended.
C16_HistoryAppendOnly ==
    [][/\ \/ history' = history
          \/ /\ buffer # <<>>
             /\ history' = Append(history, buffer)
             /\ buffer' = <<>>
       /\ pc = "eval" /\ cycle'.accepted =>
            /\ history' = Append(history, JoinLines(pending))
            /\ JoinLines(pending) = cycle'.src
       /\ pc = "eval" /\ cycle'.ret \in {ErrContinue, ErrQuit} =>
            history' = history
       /\ Prompted /\ event'.said = "error: unmatched braces" =>
            history' = history /\ buffer' = <<>>]_vars

\* the input "(" was continued by "1+1)" and accepted: history holds the
\* two lines as one entry
C16_Witness ==
    /\ history = << <<"(", NL, "1+1", ")">> >>
    /\ cycle.accepted
    /\ cycle.parse = "expr"
    /\ buffer = <<>>
    /\ pending = <<>>

\* C17 (as claimed): incomplete and malformed input, a failing import or
\* include, a failing run, unmatched braces and an unknown directive leave
\* the process running, also when ":reset" runs Session.Init again on the
\* files of -context: the process is never ended by a panic.
C17_ErrorsRecoveredLocally == pc # "panic"

\* C19 (as claimed): after a cycle in which fixImports ran and the program
\* exited with status 2, the import list is the import list before the
\* cycle.
C19_RollbackRestoresImports ==
    InputCycle /\ cycle.fixed /\ cycle.status = "exit2" =>
      imports = cycle.preImports

\* C20 (as claimed): whenever restoreMainBody runs, the stored length is at
\* most the length of the body it slices.
C20_CheckpointInRange ==
    cycle.restored => cycle.lens[1] <= cycle.lens[4]

\* the loop of importFile on the declarations of a file slices f.Decls out
\* of range
StripPanics(decls, includingMain) ==
    stripDecls(Stripping(decls, <<>>), 1, includingMain).panic

\* C21 (as claimed): the loop of importFile never slices the declaration
\* list out of range, whatever the positions of main and __gore_p: Eval of
\* ":read" on a file never panics (it registers the unit or reports an
\* error), and when s.Init() has run on the one file of -context that parses,
\* the loop on its declarations stayed in range.
C21_StripLoopInRange ==
    /\ cycle.src = ReadM => cycle.ret # "panic"
    /\ pc # "init" /\ Len(ExtFiles) = 1 /\ ExtFiles[1].ok = "ok" =>
         ~StripPanics(ExtFiles[1].Decls, FALSE)
====
